---- MODULE Spec2Model ----
(***************************************************************************)
(* Model of AnalogRacingServer (src/racing_server.py): the shared control  *)
(* state, the client registry, the message handler and the output device   *)
(* back ends (vgamepad, vJoy, keyboard, none).                             *)
(*                                                                         *)
(* Real numbers are kept exact: a pedal value is a fraction <<num, den>>   *)
(* (den > 0), steering angles are whole degrees.  The handlers contain no  *)
(* await, so each one runs to completion as a single step of the asyncio   *)
(* event loop.                                                             *)
(*                                                                         *)
(* Device failures: a call that reaches the driver (pyautogui keyDown and  *)
(* keyUp, pyvjoy set_axis and set_button, VX360Gamepad.update) may raise;  *)
(* the vgamepad setters and reset only edit the report held in memory.     *)
(***************************************************************************)
EXTENDS Integers, Sequences, FiniteSets, TLC

\* ---- bounds of the model -------------------------------------------------
MaxClients == 2
MaxFails == 1

\* ---- program constants ---------------------------------------------------
max_steering_angle == 900

Clients == 1..MaxClients

VGAMEPAD_XBOX == "VGAMEPAD_XBOX"
VJOY == "VJOY"
KEYBOARD == "KEYBOARD"
NONE == "NONE"

\* keys the keyboard back end can hold, in the order release_all_inputs is
\* taken to walk list(keys_pressed)
KeyOrder == <<"a", "d", "w", "s", "space", "h">>

\* ---- inputs --------------------------------------------------------------
\* a field of the data object: missing, a JSON number, or a JSON value that
\* Python cannot compare or divide (string, list, object, null)
Absent == [t |-> "absent", v |-> 0]
NonNumeric == [t |-> "str", v |-> 0]
Num(x) == [t |-> "num", v |-> x]
SteeringInputs == {-950, 450, 950}
PedalInputs == {-10, 80, 150}


\* the value of the "data" key: a JSON object
Payload(s, a, b) == [kind |-> "map", steering |-> s, accelerator |-> a, brake |-> b]
EmptyMap == Payload(Absent, Absent, Absent)
\* "data": null
NullPayload == [kind |-> "null", steering |-> Absent, accelerator |-> Absent, brake |-> Absent]
NoData == [kind |-> "none", steering |-> Absent, accelerator |-> Absent, brake |-> Absent]

Record(command, data) == [kind |-> "record", command |-> command, data |-> data]
\* text that json.loads rejects
BadJson == [kind |-> "badjson", command |-> "", data |-> NoData]
\* JSON that is not an object (a list, a number, a string, null)
NonRecord == [kind |-> "nonrecord", command |-> "", data |-> NoData]
NoMsg == [kind |-> "nomsg", command |-> "", data |-> NoData]

PlainCommands == {"handbrake_press", "handbrake_release", "horn_press", "horn_release", "reset", "other"}

\* the messages of Spec: every command, one in-range update per field, an
\* update whose second field is ill-typed, an update without a data object
CoreMessages ==
    {BadJson, NonRecord}
    \cup {Record(c, EmptyMap) : c \in PlainCommands}
    \cup {Record("update", d) : d \in {Payload(Num(450), Absent, Absent),
                                        Payload(Absent, Num(80), Absent),
                                        Payload(Absent, Absent, Num(80)),
                                        Payload(Num(450), NonNumeric, Absent),
                                        NullPayload}}

\* the messages of SpecInputs: the commands that write the control state,
\* each field alone with every input, and updates of all three fields
SinglePayloads ==
    {Payload(Num(x), Absent, Absent) : x \in SteeringInputs}
    \cup {Payload(Absent, Num(x), Absent) : x \in PedalInputs}
    \cup {Payload(Absent, Absent, Num(x)) : x \in PedalInputs}

MixedPayloads ==
    {Payload(Num(450), Num(80), Num(80)),
     Payload(Num(950), Num(-10), Num(150)),
     Payload(Num(-950), Num(150), NonNumeric)}

InputMessages ==
    {Record(c, EmptyMap) : c \in PlainCommands \ {"other"}}
    \cup {Record("update", d) : d \in SinglePayloads \cup MixedPayloads}

\* the messages of SpecKeys: steering on both sides of the keyboard back
\* end's dead zone and on its two edges (a reset centres it), pedals above
\* and on the 0.1 threshold
KeySteeringInputs == {-50, -10, 10, 50, 60}
KeyPedalInputs == {10, 80}

KeyMessages ==
    {Record(c, EmptyMap) : c \in PlainCommands \ {"other"}}
    \cup {Record("update", Payload(Num(x), Absent, Absent)) : x \in KeySteeringInputs}
    \cup {Record("update", Payload(Absent, Num(x), Absent)) : x \in KeyPedalInputs}
    \cup {Record("update", Payload(Absent, Absent, Num(x))) : x \in KeyPedalInputs}

\* the messages of SpecShared: every client sends its own steering angle and
\* its own accelerator percentage, so a stored value names its sender
ClientMessages(c) ==
    {Record(k, EmptyMap) : k \in {"handbrake_press", "reset"}}
    \cup {Record("update", Payload(Num(100 * c), Absent, Absent)),
          Record("update", Payload(Absent, Num(10 * c), Absent))}

\* how the read loop of handle_client ends: the iteration is exhausted (clean
\* close), it raises ConnectionClosed, or it raises another Exception
ConnectionClosed == [kind |-> "ConnectionClosed", command |-> "", data |-> NoData]
LoopError == [kind |-> "Exception", command |-> "", data |-> NoData]
LoopEnds == {NoMsg, ConnectionClosed, LoopError}

\* ---- exact arithmetic ----------------------------------------------------
RatLess(a, b) == a[1] * b[2] < b[1] * a[2]
Zero == <<0, 1>>
One == <<1, 1>>

\* Python's min(a, b) and max(a, b): the first argument wins unless the
\* second is strictly smaller (larger)
PyMin(a, b) == IF b < a THEN b ELSE a
PyMax(a, b) == IF b > a THEN b ELSE a
RatMin(a, b) == IF RatLess(b, a) THEN b ELSE a
RatMax(a, b) == IF RatLess(a, b) THEN b ELSE a

Abs(x) == IF x < 0 THEN -x ELSE x

\* ---- state ---------------------------------------------------------------
VARIABLES
    connected_clients,    \* self.connected_clients
    current_steering,     \* self.current_steering, degrees
    current_accelerator,  \* self.current_accelerator, a fraction
    current_brake,        \* self.current_brake, a fraction
    handbrake_pressed,    \* self.handbrake_pressed
    horn_pressed,         \* self.horn_pressed
    controller_type,      \* self.controller_type
    keys_pressed,         \* self.keys_pressed (keyboard back end)
    keys_down,            \* the keys the operating system holds down
    active,               \* the connection tasks that are running a handler
    serving,              \* start_server is inside "async with websockets.serve"
    ev,                   \* the event handled last: kind, client, message (and
                          \* for the construction what init_controller found)
    calls,                \* device calls issued while handling ev
    steps,                \* release_all_inputs / update_controller steps of ev
    escaped,              \* an exception left the handler of ev
    failures,             \* device calls that raised so far
    applied               \* how often update_controller has run: 0, 1, many

vars == <<connected_clients, current_steering, current_accelerator, current_brake,
          handbrake_pressed, horn_pressed, controller_type, keys_pressed, keys_down,
          active, serving, ev, calls, steps, escaped, failures, applied>>

ControlState ==
    [steering |-> current_steering, accelerator |-> current_accelerator,
     brake |-> current_brake, handbrake |-> handbrake_pressed, horn |-> horn_pressed]

Neutral ==
    [steering |-> 0, accelerator |-> Zero, brake |-> Zero, handbrake |-> FALSE, horn |-> FALSE]

\* ---- the running handler -------------------------------------------------
\* m.st the control state, m.keys the held-key set, m.calls the device calls
\* so far, m.steps the handler steps so far, m.raised an exception in flight.
\* m.n counts the calls so far that reach the driver; F is the set of
\* positions among those whose call raises.
Machine(st, keys) ==
    [st |-> st, keys |-> keys, calls |-> <<>>, steps |-> <<>>, n |-> 0, raised |-> FALSE]

\* a call that reaches the driver (keyDown, keyUp, set_axis, set_button,
\* VX360Gamepad.update) and may raise
Call(m, F, op, arg) ==
    IF m.raised THEN m
    ELSE LET k == m.n + 1 IN
         [m EXCEPT !.calls = Append(@, [op |-> op, arg |-> arg, ok |-> k \notin F]),
                   !.n = k,
                   !.raised = (k \in F)]

\* a vgamepad call that only edits the in-memory report
Write(m, op, arg) ==
    IF m.raised THEN m
    ELSE [m EXCEPT !.calls = Append(@, [op |-> op, arg |-> arg, ok |-> TRUE])]

Catch(m) == [m EXCEPT !.raised = FALSE]

Step(m, name) ==
    IF m.raised THEN m
    ELSE [m EXCEPT !.steps = Append(@, [step |-> name, st |-> m.st, at |-> Len(m.calls)])]

\* faulty variant: the key is pressed without looking at keys_pressed
press_key_always(m, F, key) ==
    IF m.raised THEN m
    ELSE LET m1 == Call(m, F, "keyDown", key) IN
         IF m1.raised THEN Catch(m1) ELSE [m1 EXCEPT !.keys = @ \cup {key}]

press_key(m, F, key) ==
    IF m.raised \/ key \in m.keys THEN m
    ELSE LET m1 == Call(m, F, "keyDown", key) IN
         IF m1.raised THEN Catch(m1) ELSE [m1 EXCEPT !.keys = @ \cup {key}]

release_key(m, F, key) ==
    IF m.raised \/ key \notin m.keys THEN m
    ELSE LET m1 == Call(m, F, "keyUp", key) IN
         IF m1.raised THEN Catch(m1) ELSE [m1 EXCEPT !.keys = @ \ {key}]

SetKey(m, F, key, down) ==
    IF down THEN press_key(m, F, key) ELSE release_key(m, F, key)

\* faulty variant: a direction key is pressed without releasing the other one
update_keyboard_controller_norelease(m, F) ==
    LET s == m.st.steering
        m1 == IF Abs(s) < 10 THEN release_key(release_key(m, F, "a"), F, "d")
              ELSE IF s < -10 THEN press_key(m, F, "a")
              ELSE IF s > 10 THEN press_key(m, F, "d")
              ELSE m
        m2 == SetKey(m1, F, "w", RatLess(<<1, 10>>, m.st.accelerator))
        m3 == SetKey(m2, F, "s", RatLess(<<1, 10>>, m.st.brake))
        m4 == SetKey(m3, F, "space", m.st.handbrake)
        m5 == SetKey(m4, F, "h", m.st.horn)
    IN Catch(m5)

\* faulty variant: a pedal key is pressed from 0.1 on, not above 0.1
update_keyboard_controller_atleast(m, F) ==
    LET s == m.st.steering
        m1 == IF Abs(s) < 10 THEN release_key(release_key(m, F, "a"), F, "d")
              ELSE IF s < -10 THEN press_key(release_key(m, F, "d"), F, "a")
              ELSE IF s > 10 THEN press_key(release_key(m, F, "a"), F, "d")
              ELSE m
        m2 == SetKey(m1, F, "w", ~RatLess(m.st.accelerator, <<1, 10>>))
        m3 == SetKey(m2, F, "s", ~RatLess(m.st.brake, <<1, 10>>))
        m4 == SetKey(m3, F, "space", m.st.handbrake)
        m5 == SetKey(m4, F, "h", m.st.horn)
    IN Catch(m5)

update_keyboard_controller(m, F) ==
    LET s == m.st.steering
        m1 == IF Abs(s) < 10 THEN release_key(release_key(m, F, "a"), F, "d")
              ELSE IF s < -10 THEN press_key(release_key(m, F, "d"), F, "a")
              ELSE IF s > 10 THEN press_key(release_key(m, F, "a"), F, "d")
              ELSE m
        m2 == SetKey(m1, F, "w", RatLess(<<1, 10>>, m.st.accelerator))
        m3 == SetKey(m2, F, "s", RatLess(<<1, 10>>, m.st.brake))
        m4 == SetKey(m3, F, "space", m.st.handbrake)
        m5 == SetKey(m4, F, "h", m.st.horn)
    IN Catch(m5)

steering_normalized(st) ==
    RatMax(<<-1, 1>>, RatMin(One, <<st.steering, max_steering_angle>>))

\* faulty variant: the two triggers are swapped
update_vgamepad_controller_swapped(m, F) ==
    LET m1 == Write(m, "left_joystick_float", steering_normalized(m.st))
        m2 == Write(m1, "right_trigger_float", m.st.brake)
        m3 == Write(m2, "left_trigger_float", m.st.accelerator)
        m4 == Write(m3, IF m.st.handbrake THEN "press_button" ELSE "release_button", "A")
        m5 == Write(m4, IF m.st.horn THEN "press_button" ELSE "release_button", "X")
        m6 == Call(m5, F, "update", "")
    IN Catch(m6)

\* faulty variant: the report is sent to the driver after every write
update_vgamepad_controller_perfield(m, F) ==
    LET m1 == Call(Write(m, "left_joystick_float", steering_normalized(m.st)), F, "update", "")
        m2 == Call(Write(m1, "right_trigger_float", m.st.accelerator), F, "update", "")
        m3 == Call(Write(m2, "left_trigger_float", m.st.brake), F, "update", "")
        m4 == Call(Write(m3, IF m.st.handbrake THEN "press_button" ELSE "release_button", "A"),
                   F, "update", "")
        m5 == Call(Write(m4, IF m.st.horn THEN "press_button" ELSE "release_button", "X"),
                   F, "update", "")
    IN Catch(m5)

update_vgamepad_controller(m, F) ==
    LET m1 == Write(m, "left_joystick_float", steering_normalized(m.st))
        m2 == Write(m1, "right_trigger_float", m.st.accelerator)
        m3 == Write(m2, "left_trigger_float", m.st.brake)
        m4 == Write(m3, IF m.st.handbrake THEN "press_button" ELSE "release_button", "A")
        m5 == Write(m4, IF m.st.horn THEN "press_button" ELSE "release_button", "X")
        m6 == Call(m5, F, "update", "")
    IN Catch(m6)

\* int(x) of a non-negative fraction
PyInt(q) == q[1] \div q[2]

\* faulty variant: the accelerator axis is written without being inverted
update_vjoy_controller_plain(m, F) ==
    LET n == steering_normalized(m.st)
        steering_vjoy == PyInt(<<(n[1] + n[2]) * 32767, 2 * n[2]>>) + 1
        accel_vjoy == PyInt(<<m.st.accelerator[1] * 32767, m.st.accelerator[2]>>) + 1
        brake_vjoy == PyInt(<<m.st.brake[1] * 32767, m.st.brake[2]>>) + 1
        m1 == Call(m, F, "set_axis_X", steering_vjoy)
        m2 == Call(m1, F, "set_axis_Y", accel_vjoy)
        m3 == Call(m2, F, "set_axis_Z", brake_vjoy)
        m4 == Call(m3, F, "set_button_1", m.st.handbrake)
        m5 == Call(m4, F, "set_button_2", m.st.horn)
    IN Catch(m5)

update_vjoy_controller(m, F) ==
    LET n == steering_normalized(m.st)
        steering_vjoy == PyInt(<<(n[1] + n[2]) * 32767, 2 * n[2]>>) + 1
        accel_vjoy == PyInt(<<m.st.accelerator[1] * 32767, m.st.accelerator[2]>>) + 1
        brake_vjoy == PyInt(<<m.st.brake[1] * 32767, m.st.brake[2]>>) + 1
        m1 == Call(m, F, "set_axis_X", steering_vjoy)
        m2 == Call(m1, F, "set_axis_Y", 32768 - accel_vjoy)
        m3 == Call(m2, F, "set_axis_Z", brake_vjoy)
        m4 == Call(m3, F, "set_button_1", m.st.handbrake)
        m5 == Call(m4, F, "set_button_2", m.st.horn)
    IN Catch(m5)

update_controller(m, F, ct) ==
    LET m0 == Step(m, "apply") IN
    IF m.raised THEN m
    ELSE IF ct = VGAMEPAD_XBOX THEN update_vgamepad_controller(m0, F)
    ELSE IF ct = VJOY THEN update_vjoy_controller(m0, F)
    ELSE IF ct = KEYBOARD THEN update_keyboard_controller(m0, F)
    ELSE m0

RECURSIVE ReleaseEach(_, _, _, _)
ReleaseEach(m, F, held, i) ==
    IF i > Len(KeyOrder) THEN m
    ELSE ReleaseEach(IF KeyOrder[i] \in held THEN release_key(m, F, KeyOrder[i]) ELSE m,
                     F, held, i + 1)

\* faulty variant: the reset forgets the horn
release_all_inputs_horn(m, F, ct) ==
    LET m0 == Step([m EXCEPT !.st = [Neutral EXCEPT !.horn = m.st.horn]], "zero")
        m1 == IF ct = KEYBOARD THEN ReleaseEach(m0, F, m0.keys, 1)
              ELSE IF ct = VGAMEPAD_XBOX THEN Call(Write(m0, "reset", ""), F, "update", "")
              ELSE m0
        m2 == Step(m1, "reset")
    IN update_controller(m2, F, ct)

\* faulty variant: the reset does not end with update_controller
release_all_inputs_noapply(m, F, ct) ==
    LET m0 == Step([m EXCEPT !.st = Neutral], "zero")
        m1 == IF ct = KEYBOARD THEN ReleaseEach(m0, F, m0.keys, 1)
              ELSE IF ct = VGAMEPAD_XBOX THEN Call(Write(m0, "reset", ""), F, "update", "")
              ELSE m0
    IN Step(m1, "reset")

\* faulty variant: the fields are zeroed after the device has been reset
release_all_inputs_late(m, F, ct) ==
    LET m1 == IF ct = KEYBOARD THEN ReleaseEach(m, F, m.keys, 1)
              ELSE IF ct = VGAMEPAD_XBOX THEN Call(Write(m, "reset", ""), F, "update", "")
              ELSE m
        m0 == IF m1.raised THEN m1 ELSE Step([m1 EXCEPT !.st = Neutral], "zero")
        m2 == Step(m0, "reset")
    IN update_controller(m2, F, ct)

release_all_inputs(m, F, ct) ==
    LET m0 == Step([m EXCEPT !.st = Neutral], "zero")
        m1 == IF ct = KEYBOARD THEN ReleaseEach(m0, F, m0.keys, 1)
              ELSE IF ct = VGAMEPAD_XBOX THEN Call(Write(m0, "reset", ""), F, "update", "")
              ELSE m0
        m2 == Step(m1, "reset")
    IN update_controller(m2, F, ct)

Raise(m) == [m EXCEPT !.raised = TRUE]

\* faulty variant: a missing steering field is read as 0, payload.get('steering', 0)
SetSteeringDefault(m, payload) ==
    IF m.raised THEN m
    ELSE IF payload.kind = "null" THEN Raise(m)
    ELSE IF payload.steering.t = "str" THEN Raise(m)
    ELSE [m EXCEPT !.st.steering =
              PyMax(-max_steering_angle,
                    PyMin(max_steering_angle,
                          IF payload.steering.t = "absent" THEN 0 ELSE payload.steering.v))]

\* faulty variant: the steering is clamped to one turn, 360 degrees
SetSteeringOneTurn(m, payload) ==
    IF m.raised THEN m
    ELSE IF payload.kind = "null" THEN Raise(m)
    ELSE IF payload.steering.t = "absent" THEN m
    ELSE IF payload.steering.t = "str" THEN Raise(m)
    ELSE [m EXCEPT !.st.steering = PyMax(-360, PyMin(360, payload.steering.v))]

\* "if 'steering' in payload: self.current_steering = max(-max, min(max, v))":
\* the membership test raises TypeError on null, the comparison on a
\* non-number
SetSteering(m, payload) ==
    IF m.raised THEN m
    ELSE IF payload.kind = "null" THEN Raise(m)
    ELSE IF payload.steering.t = "absent" THEN m
    ELSE IF payload.steering.t = "str" THEN Raise(m)
    ELSE [m EXCEPT !.st.steering =
              PyMax(-max_steering_angle, PyMin(max_steering_angle, payload.steering.v))]

\* faulty variant: the upper clamp is missing
NormalizeNoUpper(p) == RatMax(Zero, <<p, 100>>)

\* max(0.0, min(1.0, p / 100.0))
Normalize(p) == RatMax(Zero, RatMin(One, <<p, 100>>))

\* faulty variant: the pedal values of the clients are merged, the largest wins
SetAcceleratorMerge(m, payload) ==
    IF m.raised THEN m
    ELSE IF payload.kind = "null" THEN Raise(m)
    ELSE IF payload.accelerator.t = "absent" THEN m
    ELSE IF payload.accelerator.t = "str" THEN Raise(m)
    ELSE [m EXCEPT !.st.accelerator = RatMax(@, Normalize(payload.accelerator.v))]

SetAccelerator(m, payload) ==
    IF m.raised THEN m
    ELSE IF payload.kind = "null" THEN Raise(m)
    ELSE IF payload.accelerator.t = "absent" THEN m
    ELSE IF payload.accelerator.t = "str" THEN Raise(m)
    ELSE [m EXCEPT !.st.accelerator = Normalize(payload.accelerator.v)]

SetBrake(m, payload) ==
    IF m.raised THEN m
    ELSE IF payload.kind = "null" THEN Raise(m)
    ELSE IF payload.brake.t = "absent" THEN m
    ELSE IF payload.brake.t = "str" THEN Raise(m)
    ELSE [m EXCEPT !.st.brake = Normalize(payload.brake.v)]

\* faulty variant: horn_release clears the handbrake flag as well
dispatch_hornclears(m, F, ct, msg) ==
    LET c == msg.command IN
    IF c = "update" THEN
        update_controller(SetBrake(SetAccelerator(SetSteering(m, msg.data), msg.data), msg.data), F, ct)
    ELSE IF c = "handbrake_press" THEN
        update_controller([m EXCEPT !.st.handbrake = TRUE], F, ct)
    ELSE IF c = "handbrake_release" THEN
        update_controller([m EXCEPT !.st.handbrake = FALSE], F, ct)
    ELSE IF c = "horn_press" THEN
        update_controller([m EXCEPT !.st.horn = TRUE], F, ct)
    ELSE IF c = "horn_release" THEN
        update_controller([m EXCEPT !.st.horn = FALSE, !.st.handbrake = FALSE], F, ct)
    ELSE IF c = "reset" THEN
        release_all_inputs(m, F, ct)
    ELSE m

\* faulty variant: a command that is not known is taken for an update
dispatch_applyall(m, F, ct, msg) ==
    LET c == msg.command IN
    IF c = "handbrake_press" THEN
        update_controller([m EXCEPT !.st.handbrake = TRUE], F, ct)
    ELSE IF c = "handbrake_release" THEN
        update_controller([m EXCEPT !.st.handbrake = FALSE], F, ct)
    ELSE IF c = "horn_press" THEN
        update_controller([m EXCEPT !.st.horn = TRUE], F, ct)
    ELSE IF c = "horn_release" THEN
        update_controller([m EXCEPT !.st.horn = FALSE], F, ct)
    ELSE IF c = "reset" THEN
        release_all_inputs(m, F, ct)
    ELSE update_controller(SetBrake(SetAccelerator(SetSteering(m, msg.data), msg.data), msg.data), F, ct)

\* the command branches of handle_message, inside its try block
dispatch(m, F, ct, msg) ==
    LET c == msg.command IN
    IF c = "update" THEN
        update_controller(SetBrake(SetAccelerator(SetSteering(m, msg.data), msg.data), msg.data), F, ct)
    ELSE IF c = "handbrake_press" THEN
        update_controller([m EXCEPT !.st.handbrake = TRUE], F, ct)
    ELSE IF c = "handbrake_release" THEN
        update_controller([m EXCEPT !.st.handbrake = FALSE], F, ct)
    ELSE IF c = "horn_press" THEN
        update_controller([m EXCEPT !.st.horn = TRUE], F, ct)
    ELSE IF c = "horn_release" THEN
        update_controller([m EXCEPT !.st.horn = FALSE], F, ct)
    ELSE IF c = "reset" THEN
        release_all_inputs(m, F, ct)
    ELSE m

\* faulty variant: the JSONDecodeError of json.loads is not caught
handle_message_nocatch(m, F, ct, msg) ==
    IF msg.kind = "badjson" THEN Raise(m)
    ELSE IF msg.kind = "nonrecord" THEN Catch(Raise(m))
    ELSE Catch(dispatch(m, F, ct, msg))

\* json.loads raises JSONDecodeError on bad text, data.get raises
\* AttributeError when the JSON value is not an object; both except clauses
\* log and return
handle_message(m, F, ct, msg) ==
    IF msg.kind = "badjson" THEN Catch(Raise(m))
    ELSE IF msg.kind = "nonrecord" THEN Catch(Raise(m))
    ELSE Catch(dispatch(m, F, ct, msg))

\* what init_controller finds: each library imported or not, and for the two
\* device libraries whether the constructor of the device returns or raises
Probe(vgAvail, vgOk, vjAvail, vjOk, kbAvail) ==
    [vgAvail |-> vgAvail, vgOk |-> vgOk, vjAvail |-> vjAvail, vjOk |-> vjOk,
     kbAvail |-> kbAvail]

\* faulty variant: VJoy is tried before vgamepad
init_controller_vjoyfirst(vgAvail, vgOk, vjAvail, vjOk, kbAvail) ==
    IF vjAvail /\ vjOk THEN VJOY
    ELSE IF vgAvail /\ vgOk THEN VGAMEPAD_XBOX
    ELSE IF kbAvail THEN KEYBOARD
    ELSE NONE

init_controller(vgAvail, vgOk, vjAvail, vjOk, kbAvail) ==
    IF vgAvail /\ vgOk THEN VGAMEPAD_XBOX
    ELSE IF vjAvail /\ vjOk THEN VJOY
    ELSE IF kbAvail THEN KEYBOARD
    ELSE NONE

ControllerTypes == {VGAMEPAD_XBOX, VJOY, KEYBOARD, NONE}

\* faulty variant: every disconnect resets, also when clients remain
unregister_client_always(m, F, ct, rest) == release_all_inputs(m, F, ct)

\* faulty variant: the last disconnect does not reset
unregister_client_noreset(m, F, ct, rest) == m

unregister_client(m, F, ct, rest) ==
    IF rest = {} THEN release_all_inputs(m, F, ct) ELSE m

\* faulty variant: the clause "except Exception" is missing
handle_client_noexcept(m, F, ct, rest, end) ==
    LET r == unregister_client(m, F, ct, rest) IN
    IF end.kind \in {"nomsg", "ConnectionClosed"} THEN r ELSE Raise(r)

\* handle_client once the read loop has ended: both except clauses swallow
\* the error, the finally block runs unregister_client
handle_client(m, F, ct, rest, end) ==
    LET r == unregister_client(m, F, ct, rest) IN
    IF end.kind \in {"nomsg", "ConnectionClosed", "Exception"} THEN r ELSE Raise(r)

\* what a handler is run for: a message, the end of a read loop (rest are
\* the clients that stay), or the shutdown of the server
Job(kind, msg, rest) == [kind |-> kind, msg |-> msg, rest |-> rest]

Run(job, m0, F, ct) ==
    IF job.kind = "message" THEN handle_message(m0, F, ct, job.msg)
    ELSE IF job.kind = "end" THEN handle_client(m0, F, ct, job.rest, job.msg)
    ELSE release_all_inputs(m0, F, ct)

Last(F) == IF F = {} THEN 0 ELSE CHOOSE i \in F : \A j \in F : j <= i

\* the ways a handler can end when its driver calls at the positions F raise
\* and at most k of its later driver calls raise as well: any call the
\* handler gets to make may be the next one to raise
RECURSIVE Outcomes(_, _, _, _, _)
Outcomes(job, m0, ct, F, k) ==
    LET r == Run(job, m0, F, ct) IN
    IF k = 0 THEN {r}
    ELSE {r} \cup UNION {Outcomes(job, m0, ct, F \cup {j}, k - 1) : j \in (Last(F) + 1)..r.n}

\* how often update_controller was entered
Applies(ss) == Cardinality({i \in 1..Len(ss) : ss[i].step = "apply"})

Failed(m) == Cardinality({i \in 1..Len(m.calls) : ~m.calls[i].ok})

\* the keys held down once the calls cs[i..] have reached the operating
\* system; pyautogui checks its fail-safe before it synthesises the event, so
\* a keyDown or keyUp that raises emits nothing
RECURSIVE KeysAfter(_, _, _)
KeysAfter(held, cs, i) ==
    IF i > Len(cs) THEN held
    ELSE KeysAfter(IF ~cs[i].ok THEN held
                   ELSE IF cs[i].op = "keyDown" THEN held \cup {cs[i].arg}
                   ELSE IF cs[i].op = "keyUp" THEN held \ {cs[i].arg}
                   ELSE held,
                   cs, i + 1)

\* ---- the state machine ---------------------------------------------------
Init ==
    /\ connected_clients = {}
    /\ current_steering = 0
    /\ current_accelerator = Zero
    /\ current_brake = Zero
    /\ handbrake_pressed = FALSE
    /\ horn_pressed = FALSE
    /\ \E vgAvail, vgOk, vjAvail, vjOk, kbAvail \in BOOLEAN :
           /\ controller_type = init_controller(vgAvail, vgOk, vjAvail, vjOk, kbAvail)
           /\ ev = [kind |-> "init", client |-> 0, msg |-> NoMsg,
                    probe |-> Probe(vgAvail, vgOk, vjAvail, vjOk, kbAvail)]
    /\ keys_pressed = {}
    /\ keys_down = {}
    /\ active = {}
    /\ serving = TRUE
    /\ calls = <<>>
    /\ steps = <<>>
    /\ escaped = FALSE
    /\ failures = 0
    /\ applied = 0

\* the outcomes open to a handler, MaxFails bounding the calls that raise in
\* one run of the server
Handler(job) ==
    Outcomes(job, Machine(ControlState, keys_pressed), controller_type, {}, MaxFails - failures)

Commit(m) ==
    /\ current_steering' = m.st.steering
    /\ current_accelerator' = m.st.accelerator
    /\ current_brake' = m.st.brake
    /\ handbrake_pressed' = m.st.handbrake
    /\ horn_pressed' = m.st.horn
    /\ keys_pressed' = m.keys
    /\ keys_down' = KeysAfter(keys_down, m.calls, 1)
    /\ calls' = m.calls
    /\ steps' = m.steps
    /\ escaped' = m.raised
    /\ failures' = failures + Failed(m)
    /\ applied' = IF applied + Applies(m.steps) > 1 THEN 2 ELSE applied + Applies(m.steps)

\* handle_client up to the read loop: register_client
Connect(c) ==
    /\ serving
    /\ active = {}
    /\ c \notin connected_clients
    /\ connected_clients' = connected_clients \cup {c}
    /\ ev' = [kind |-> "connect", client |-> c, msg |-> NoMsg]
    /\ Commit(Machine(ControlState, keys_pressed))
    /\ UNCHANGED <<controller_type, active, serving>>

\* the connection task of c, resumed with msg
Task(c, msg) == [client |-> c, msg |-> msg]

\* one turn of the read loop: handle_message, which runs to its end without
\* an await
Message(c, msg) ==
    /\ active \subseteq {Task(c, msg)}
    /\ active' = {}
    /\ c \in connected_clients
    /\ \E r \in Handler(Job("message", msg, {})) : Commit(r)
    /\ ev' = [kind |-> "message", client |-> c, msg |-> msg]
    /\ UNCHANGED <<connected_clients, controller_type, serving>>

\* the read loop of c ends and the handler runs to its end without an await
ReadLoopEnds(c, end) ==
    /\ active \subseteq {Task(c, end)}
    /\ active' = {}
    /\ c \in connected_clients
    /\ connected_clients' = connected_clients \ {c}
    /\ ev' = [kind |-> "disconnect", client |-> c, msg |-> end]
    /\ \E r \in Handler(Job("end", end, connected_clients \ {c})) : Commit(r)
    /\ UNCHANGED <<controller_type, serving>>

\* the client closes the connection
Disconnect(c) == ReadLoopEnds(c, NoMsg)

\* faulty variant: a task is resumed while another one runs its handler
ReceiveAny(c, msg) ==
    /\ serving \/ msg \in LoopEnds
    /\ c \in connected_clients
    /\ \A t \in active : t.client # c
    /\ active' = active \cup {Task(c, msg)}
    /\ UNCHANGED <<connected_clients, current_steering, current_accelerator, current_brake,
                   handbrake_pressed, horn_pressed, controller_type, keys_pressed, keys_down,
                   serving, ev, calls, steps, escaped, failures, applied>>

\* "async for message in websocket" hands the task of c a message or the end
\* of the stream; the event loop resumes a task only when no other task is
\* running, and a handler gives the loop back only at this await
Receive(c, msg) ==
    /\ active = {}
    /\ serving \/ msg \in LoopEnds
    /\ c \in connected_clients
    /\ active' = active \cup {Task(c, msg)}
    /\ UNCHANGED <<connected_clients, current_steering, current_accelerator, current_brake,
                   handbrake_pressed, horn_pressed, controller_type, keys_pressed, keys_down,
                   serving, ev, calls, steps, escaped, failures, applied>>

\* start_server leaves "async with websockets.serve": no connection is
\* accepted and no message is read any more, the connections still open are
\* closed, and the finally block calls release_all_inputs
Shutdown ==
    /\ serving
    /\ active = {}
    /\ serving' = FALSE
    /\ ev' = [kind |-> "shutdown", client |-> 0, msg |-> NoMsg]
    /\ \E r \in Handler(Job("shutdown", NoMsg, {})) : Commit(r)
    /\ UNCHANGED <<connected_clients, controller_type, active>>

\* the running task handles what it received, up to its next await
Handle ==
    \E t \in active :
        \/ t.msg \in LoopEnds /\ ReadLoopEnds(t.client, t.msg)
        \/ t.msg \notin LoopEnds /\ Message(t.client, t.msg)

Next ==
    \/ \E c \in Clients : Connect(c)
    \/ \E c \in Clients, msg \in CoreMessages : Message(c, msg)
    \/ \E c \in Clients : Disconnect(c)

Spec == Init /\ [][Next]_vars

\* one client sending every message of InputMessages
NextInputs ==
    \/ Connect(1)
    \/ \E msg \in InputMessages : Message(1, msg)
    \/ Disconnect(1)

SpecInputs == Init /\ [][NextInputs]_vars

\* several clients, the tasks of the event loop shown step by step
NextShared ==
    \/ \E c \in Clients : Connect(c)
    \/ \E c \in Clients : \E msg \in ClientMessages(c) \cup LoopEnds : Receive(c, msg)
    \/ Handle
    \/ Shutdown

SpecShared == Init /\ [][NextShared]_vars

\* what a Handle step, and no other step, does to active: the running task
\* reaches its next await.  Handle is enabled whenever a task is running.
HandlerEnds == active # {} /\ active' = {}

\* connections that come and go; the event loop runs a resumed task up to
\* its next await
LinkMessages == {Record("handbrake_press", EmptyMap)}

NextLinks ==
    \/ \E c \in Clients : Connect(c)
    \/ \E c \in Clients : \E msg \in LinkMessages \cup LoopEnds : Receive(c, msg)
    \/ Handle

SpecLinks == Init /\ [][NextLinks]_vars /\ WF_active(HandlerEnds)

\* the keyboard fallback alone: pyautogui is imported and neither device
\* library gives a device
InitKeyboard == Init /\ controller_type = KEYBOARD

NextKeys ==
    \/ Connect(1)
    \/ \E msg \in KeyMessages : Message(1, msg)
    \/ Disconnect(1)

SpecKeys == InitKeyboard /\ [][NextKeys]_vars

\* ---- properties -----------------------------------------------------------
IsMessage(e) == e.kind = "message"
IsUpdate(e) == e.kind = "message" /\ e.msg.kind = "record" /\ e.msg.command = "update"
IsCommand(e, c) == e.kind = "message" /\ e.msg.kind = "record" /\ e.msg.command = c
LastLeft == ev.kind = "disconnect" /\ connected_clients = {}
DeviceFailed == \E i \in 1..Len(calls) : ~calls[i].ok
Held(key) == \E i \in 1..Len(calls) : calls[i].op = "keyUp" /\ calls[i].arg = key

\* C1: in every reachable state the steering lies in [-max_steering_angle,
\* max_steering_angle] and the accelerator and the brake lie in [0, 1].
C1_FieldsInDomain ==
    /\ -max_steering_angle <= current_steering
    /\ current_steering <= max_steering_angle
    /\ ~RatLess(current_accelerator, Zero) /\ ~RatLess(One, current_accelerator)
    /\ ~RatLess(current_brake, Zero) /\ ~RatLess(One, current_brake)

\* an update beyond each end of a domain has been taken in
C1_Witness ==
    /\ IsUpdate(ev)
    /\ ev.msg.data = Payload(Num(-950), Num(150), NonNumeric)
    /\ current_steering = -max_steering_angle
    /\ current_accelerator = One

\* C2: whenever no client is registered the control state is neutral.
C2_EmptyRegistryNeutral == (connected_clients = {}) => (ControlState = Neutral)

\* the last client left while the keyboard held the accelerator and the
\* handbrake keys
C2_Witness ==
    LastLeft /\ controller_type = KEYBOARD /\ Held("w") /\ Held("space") /\ ControlState = Neutral

\* C3: a disconnect that empties the registry zeroes the control state, then
\* runs the back end's reset, then update_controller with the neutral state.
C3_ResetThenApply ==
    LastLeft =>
        /\ Len(steps) = 3
        /\ steps[1].step = "zero" /\ steps[2].step = "reset" /\ steps[3].step = "apply"
        /\ steps[3].st = Neutral

\* C4: an update leaves every field missing from its data, the handbrake
\* and the horn as they were.
C4_PartialUpdate ==
    [][IsUpdate(ev') =>
         /\ (ev'.msg.data.steering.t = "absent" => current_steering' = current_steering)
         /\ (ev'.msg.data.accelerator.t = "absent" => current_accelerator' = current_accelerator)
         /\ (ev'.msg.data.brake.t = "absent" => current_brake' = current_brake)
         /\ handbrake_pressed' = handbrake_pressed
         /\ horn_pressed' = horn_pressed]_vars

\* an update of the brake alone, with the other four fields off their
\* defaults
C4_Witness ==
    /\ IsUpdate(ev)
    /\ ev.msg.data = Payload(Absent, Absent, Num(80))
    /\ current_steering = 450 /\ current_accelerator = <<80, 100>>
    /\ current_brake = <<80, 100>>
    /\ handbrake_pressed /\ horn_pressed

\* C5: a message that changes the control state enters update_controller
\* exactly once.
C5_ApplyOnce ==
    [][(IsMessage(ev') /\ ControlState' # ControlState) => Applies(steps') = 1]_vars

\* C6: a message that is not JSON changes no field and no held key, issues
\* no device call, raises nothing, and its sender stays registered.
C6_BadJsonDropped ==
    [][(IsMessage(ev') /\ ev'.msg.kind = "badjson") =>
         /\ ControlState' = ControlState
         /\ keys_pressed' = keys_pressed
         /\ calls' = <<>> /\ steps' = <<>>
         /\ ~escaped'
         /\ connected_clients' = connected_clients
         /\ ev'.client \in connected_clients']_vars

\* bad JSON arrived while the accelerator was pressed
C6_Witness ==
    /\ IsMessage(ev) /\ ev.msg.kind = "badjson"
    /\ current_accelerator = <<80, 100>>
    /\ ev.client \in connected_clients

\* a message with a type error: not an object, data not an object, or an
\* update with a non-numeric field
TypeError(msg) ==
    \/ msg.kind = "nonrecord"
    \/ msg.kind = "record" /\ msg.data.kind = "null"
    \/ /\ msg.kind = "record" /\ msg.command = "update"
       /\ "str" \in {msg.data.steering.t, msg.data.accelerator.t, msg.data.brake.t}

\* C7: a message with a type error changes no field of the control state and
\* leaves its sender registered.
C7_TypeErrorDropped ==
    [][(IsMessage(ev') /\ TypeError(ev'.msg)) =>
         /\ ControlState' = ControlState
         /\ ~escaped'
         /\ connected_clients' = connected_clients]_vars

\* C8: a device call that raises does not leave the handler; the control
\* state is what the event dictates and the sender of a message stays
\* registered.
C8_FailureContained ==
    DeviceFailed =>
        /\ ~escaped
        /\ (IsMessage(ev) => ev.client \in connected_clients)
        /\ (LastLeft \/ IsCommand(ev, "reset") => ControlState = Neutral)

Min(a, b) == IF a <= b THEN a ELSE b
Max(a, b) == IF a >= b THEN a ELSE b
Percent(p) == Min(Max(p, 0), 100)

\* C9: an update whose fields are all numbers stores the steering
\* min(max(x, -max), max) and the pedals min(max(p / 100, 0), 1).
C9_Clamp ==
    (IsUpdate(ev) /\ ev.msg.data.kind = "map" /\ ~TypeError(ev.msg)) =>
        LET d == ev.msg.data IN
        /\ d.steering.t = "num" =>
              current_steering = Min(Max(d.steering.v, -max_steering_angle), max_steering_angle)
        /\ d.accelerator.t = "num" =>
              current_accelerator[1] * 100 = Percent(d.accelerator.v) * current_accelerator[2]
        /\ d.brake.t = "num" =>
              current_brake[1] * 100 = Percent(d.brake.v) * current_brake[2]

\* 950 degrees were stored as 900
C9_Witness ==
    /\ IsUpdate(ev)
    /\ ev.msg.data = Payload(Num(950), Absent, Absent)
    /\ current_steering = max_steering_angle

\* C10: a reset command leaves the neutral control state, raises nothing,
\* and a reset that follows a reset leaves the same control state.
C10_ResetIdempotent ==
    [][IsCommand(ev', "reset") =>
         /\ ControlState' = Neutral
         /\ ~escaped'
         /\ (IsCommand(ev, "reset") => ControlState' = ControlState)]_vars

\* a reset was the first event to run update_controller
C10_Witness ==
    IsCommand(ev, "reset") /\ applied = 1 /\ Applies(steps) = 1 /\ ControlState = Neutral

\* the key events of cs[i..] that reached the operating system alternate per
\* key, starting from the keys in held
RECURSIVE Alternates(_, _, _)
Alternates(held, cs, i) ==
    IF i > Len(cs) THEN TRUE
    ELSE IF ~cs[i].ok \/ cs[i].op \notin {"keyDown", "keyUp"} THEN Alternates(held, cs, i + 1)
    ELSE IF cs[i].op = "keyDown"
         THEN cs[i].arg \notin held /\ Alternates(held \cup {cs[i].arg}, cs, i + 1)
         ELSE cs[i].arg \in held /\ Alternates(held \ {cs[i].arg}, cs, i + 1)

KeyDowns(key) == {i \in 1..Len(calls) : calls[i].op = "keyDown" /\ calls[i].arg = key}

\* C11: with the keyboard back end, the key-down and key-up events that reach
\* the operating system alternate for every key and start with a key-down:
\* no key-down for a key that is down, no key-up for a key that is up.
C11_KeysAlternate ==
    [][controller_type = KEYBOARD => Alternates(keys_down, calls', 1)]_vars

\* an update to 60 degrees found the right key down: no second key-down
C11_Witness ==
    /\ controller_type = KEYBOARD
    /\ IsUpdate(ev) /\ ev.msg.data = Payload(Num(60), Absent, Absent)
    /\ "d" \in keys_down /\ KeyDowns("d") = {}
    /\ ~DeviceFailed

\* a handler has just run for a message (Receive leaves a task in active)
Handled(e, a) == e.kind = "message" /\ a = {}
SameRat(q, num, den) == q[1] * den = num * q[2]

\* C12: with two or more clients connected, every message, whoever sent it,
\* acts on the one shared control state: each field it writes holds its
\* value, each other field keeps the value the last writer left.
C12_LastWriteWins ==
    [][(Handled(ev', active') /\ active # {} /\ Cardinality(connected_clients) >= 2) =>
         LET msg == ev'.msg
             d == msg.data
             reset == msg.command = "reset"
             update == msg.command = "update"
         IN /\ current_steering' =
                  IF reset THEN 0
                  ELSE IF update /\ d.steering.t = "num"
                       THEN Min(Max(d.steering.v, -max_steering_angle), max_steering_angle)
                  ELSE current_steering
            /\ IF reset THEN current_accelerator' = Zero
               ELSE IF update /\ d.accelerator.t = "num"
                    THEN SameRat(current_accelerator', Percent(d.accelerator.v), 100)
               ELSE current_accelerator' = current_accelerator
            /\ IF reset THEN current_brake' = Zero
               ELSE IF update /\ d.brake.t = "num"
                    THEN SameRat(current_brake', Percent(d.brake.v), 100)
               ELSE current_brake' = current_brake
            /\ handbrake_pressed' =
                  IF reset \/ msg.command = "handbrake_release" THEN FALSE
                  ELSE IF msg.command = "handbrake_press" THEN TRUE
                  ELSE handbrake_pressed
            /\ horn_pressed' =
                  IF reset \/ msg.command = "horn_release" THEN FALSE
                  ELSE IF msg.command = "horn_press" THEN TRUE
                  ELSE horn_pressed]_vars

\* client 2 wrote the accelerator; the steering is the one client 1 sent
C12_Witness ==
    /\ connected_clients = {1, 2}
    /\ Handled(ev, active) /\ ev.client = 2
    /\ ev.msg = Record("update", Payload(Absent, Num(20), Absent))
    /\ current_steering = 100
    /\ current_accelerator = Normalize(20)

\* C13: at most one connection task is inside a handler, between the first
\* write to the control state and the last device call, be it for a message
\* or for the end of a connection.
C13_Serialized == Cardinality(active) <= 1

\* client 1's update is done; client 2's task runs its reset while client 1
\* stays connected
C13_Witness ==
    /\ connected_clients = {1, 2}
    /\ active = {Task(2, Record("reset", EmptyMap))}
    /\ IsUpdate(ev) /\ ev.client = 1
    /\ current_steering = 100

KnownCommands ==
    {"update", "handbrake_press", "handbrake_release", "horn_press", "horn_release", "reset"}

\* C14: a JSON object whose command is none of the six known ones changes no
\* field, no held key and not the registry, and issues no apply and no
\* device call.
C14_UnknownIgnored ==
    [][(Handled(ev', active') /\ ev'.msg.kind = "record" /\ ev'.msg.command \notin KnownCommands) =>
         /\ ControlState' = ControlState
         /\ connected_clients' = connected_clients
         /\ keys_pressed' = keys_pressed /\ keys_down' = keys_down
         /\ calls' = <<>> /\ steps' = <<>>
         /\ ~escaped']_vars

\* an unknown command arrived while the wheel was turned and the handbrake on
C14_Witness ==
    /\ IsCommand(ev, "other")
    /\ current_steering = 450 /\ handbrake_pressed
    /\ calls = <<>> /\ steps = <<>>

\* the read loop of c has ended and its task has not yet run the handler's end
Ended(c) == \E end \in LoopEnds : Task(c, end) \in active

\* C15: a registered connection whose read loop ends, by a clean close, by
\* ConnectionClosed or by another exception, is removed from the registry
\* by unregister_client, which resets the state when no client is left; the
\* error that ended the loop does not leave handle_client; and the removal
\* does happen.
C15_Unregistered ==
    /\ [][(ev'.kind = "disconnect" /\ active # {} /\ active' = {}) =>
            /\ ev'.client \in connected_clients
            /\ connected_clients' = connected_clients \ {ev'.client}
            /\ (connected_clients' = {} =>
                   ControlState' = Neutral /\ steps' # <<>> /\ steps'[1].step = "zero")
            /\ (connected_clients' # {} =>
                   ControlState' = ControlState /\ steps' = <<>>)
            /\ (~DeviceFailed' => ~escaped')]_vars
    /\ (\E c \in Clients : Ended(c)) ~>
           (active = {} /\ ev.kind = "disconnect" /\ ev.client \notin connected_clients)

\* the last client was dropped by an exception of the read loop while the
\* handbrake was on; nothing left the handler
C15_Witness ==
    /\ ev.kind = "disconnect" /\ ev.msg = LoopError /\ active = {}
    /\ connected_clients = {}
    /\ ControlState = Neutral /\ ~escaped
    /\ \E i \in 1..Len(steps) : steps[i].step = "apply"
    /\ controller_type = KEYBOARD /\ Held("space")

\* update_controller ran in the last event; it is always the last step
Applied == steps # <<>> /\ steps[Len(steps)].step = "apply"
\* the device calls of that update_controller
ApplyCalls == SubSeq(calls, steps[Len(steps)].at + 1, Len(calls))
Ops(cs) == [i \in 1..Len(cs) |-> cs[i].op]

\* C16: with the vgamepad back end, update_controller writes the stick with
\* steering / max_steering_angle cut to [-1, 1], the right trigger with the
\* accelerator and the left trigger with the brake as they are, button A
\* pressed iff the handbrake is on and button X pressed iff the horn is on.
C16_PadMapping ==
    (controller_type = VGAMEPAD_XBOX /\ Applied) =>
        LET a == ApplyCalls IN
        /\ Len(a) >= 5
        /\ a[1].op = "left_joystick_float"
        /\ IF current_steering >= max_steering_angle THEN SameRat(a[1].arg, 1, 1)
           ELSE IF current_steering <= -max_steering_angle THEN SameRat(a[1].arg, -1, 1)
           ELSE SameRat(a[1].arg, current_steering, max_steering_angle)
        /\ a[2].op = "right_trigger_float" /\ a[2].arg = current_accelerator
        /\ a[3].op = "left_trigger_float" /\ a[3].arg = current_brake
        /\ a[4].op = (IF handbrake_pressed THEN "press_button" ELSE "release_button")
        /\ a[4].arg = "A"
        /\ a[5].op = (IF horn_pressed THEN "press_button" ELSE "release_button")
        /\ a[5].arg = "X"

\* steering 450, accelerator 80, brake 0 gave 0.5, 0.8 and 0.0
C16_Witness ==
    /\ controller_type = VGAMEPAD_XBOX /\ IsUpdate(ev) /\ Applied
    /\ current_steering = 450 /\ current_accelerator = Normalize(80) /\ current_brake = Zero
    /\ SameRat(ApplyCalls[1].arg, 1, 2)
    /\ SameRat(ApplyCalls[2].arg, 4, 5)
    /\ SameRat(ApplyCalls[3].arg, 0, 1)

\* C17: with the vgamepad back end, update_controller sends the report to
\* the driver once, after its last write; no report is sent between two of
\* its writes.
C17_FlushOnce ==
    (controller_type = VGAMEPAD_XBOX /\ Applied) =>
        LET a == ApplyCalls IN
        /\ Len(a) >= 1
        /\ a[Len(a)].op = "update"
        /\ \A i \in 1..(Len(a) - 1) : a[i].op # "update"

\* a reset: the report is sent after controller.reset() and once more by
\* update_controller, after its five writes
C17_Witness ==
    /\ controller_type = VGAMEPAD_XBOX /\ IsCommand(ev, "reset") /\ Applied
    /\ Ops(calls) = <<"reset", "update", "left_joystick_float", "right_trigger_float",
                      "left_trigger_float", "release_button", "release_button", "update">>
    /\ Len(ApplyCalls) = 6

\* release_all_inputs ran in the last event: a reset command, the last
\* client leaving, or the shutdown of the server
ResetRan ==
    \/ ev.kind = "message" /\ ev.msg.kind = "record" /\ ev.msg.command = "reset"
    \/ ev.kind = "disconnect" /\ connected_clients = {}
    \/ ev.kind = "shutdown"

Args(cs) == [i \in 1..Len(cs) |-> cs[i].arg]

\* the output of each back end at rest: no key down; stick centred, triggers
\* at 0, buttons A and X released, report sent; X axis at the middle of
\* 1..32768, the pedal axes at the value of a pedal at 0, both buttons off
NeutralOutput ==
    /\ controller_type = KEYBOARD => keys_down = {}
    /\ controller_type = VGAMEPAD_XBOX =>
          /\ Applied
          /\ Ops(ApplyCalls) = <<"left_joystick_float", "right_trigger_float", "left_trigger_float",
                                 "release_button", "release_button", "update">>
          /\ \A i \in 1..3 : SameRat(ApplyCalls[i].arg, 0, 1)
          /\ {ApplyCalls[4].arg, ApplyCalls[5].arg} = {"A", "X"}
    /\ controller_type = VJOY =>
          /\ Applied
          /\ Ops(ApplyCalls) = <<"set_axis_X", "set_axis_Y", "set_axis_Z", "set_button_1", "set_button_2">>
          /\ Args(ApplyCalls) = <<16384, 32767, 1, FALSE, FALSE>>
    /\ controller_type = NONE => calls = <<>>

\* C18: after release_all_inputs has run without a failing device call (for
\* a reset command, for the last client leaving or at shutdown) the output
\* of the back end is neutral, whatever came before, be it no apply at all
\* or another reset.
C18_ResetNeutral == (ResetRan /\ ~DeviceFailed) => NeutralOutput

\* the server was shut down before any apply: the vJoy axes were centred
C18_Witness ==
    /\ ev.kind = "shutdown" /\ controller_type = VJOY
    /\ applied = 1 /\ ~DeviceFailed
    /\ Args(calls) = <<16384, 32767, 1, FALSE, FALSE>>

\* C19: handbrake_press sets and handbrake_release clears handbrake_pressed,
\* horn_press sets and horn_release clears horn_pressed, and each of the
\* four leaves the other four fields as they were.
C19_FlagCommands ==
    [][(Handled(ev', active') /\ ev'.msg.kind = "record") =>
         LET c == ev'.msg.command
             Kept(flags) ==
                 /\ current_steering' = current_steering
                 /\ current_accelerator' = current_accelerator
                 /\ current_brake' = current_brake
                 /\ flags
         IN /\ c = "handbrake_press" => handbrake_pressed' /\ Kept(horn_pressed' = horn_pressed)
            /\ c = "handbrake_release" => ~handbrake_pressed' /\ Kept(horn_pressed' = horn_pressed)
            /\ c = "horn_press" => horn_pressed' /\ Kept(handbrake_pressed' = handbrake_pressed)
            /\ c = "horn_release" => ~horn_pressed' /\ Kept(handbrake_pressed' = handbrake_pressed)]_vars

\* the horn was released while the handbrake was on, the wheel at the stop
\* and the accelerator pressed
C19_Witness ==
    /\ IsCommand(ev, "horn_release")
    /\ ~horn_pressed /\ handbrake_pressed
    /\ current_steering = -max_steering_angle /\ current_accelerator = One

\* C20: a connect only adds the client to the registry, and a disconnect
\* after which a client is still connected only removes it: the control
\* state and the held keys stay, no reset and no apply runs, no device call
\* is made.
C20_RegistryOnly ==
    [][(connected_clients' # connected_clients /\ connected_clients' # {}) =>
         /\ \/ ev'.kind = "connect" /\ ev'.client \notin connected_clients
               /\ connected_clients' = connected_clients \cup {ev'.client}
            \/ ev'.kind = "disconnect" /\ ev'.client \in connected_clients
               /\ connected_clients' = connected_clients \ {ev'.client}
         /\ ControlState' = ControlState
         /\ keys_pressed' = keys_pressed /\ keys_down' = keys_down
         /\ calls' = <<>> /\ steps' = <<>>
         /\ ~escaped']_vars

\* client 2 left with its steering angle and the handbrake still applied;
\* client 1 stays
C20_Witness ==
    /\ ev.kind = "disconnect" /\ ev.client = 2
    /\ connected_clients = {1}
    /\ current_steering = 200 /\ handbrake_pressed
    /\ calls = <<>> /\ steps = <<>>

\* the last step of the handler was update_controller and none of the device
\* calls it made raised
ApplyFailed == \E i \in 1..Len(ApplyCalls) : ~ApplyCalls[i].ok
CleanApply == Applied /\ ~ApplyFailed

\* C21: with the keyboard back end, after an update_controller in which no
\* device call raised: a steering of absolute value below 10 leaves neither
\* "a" nor "d" held, a steering below -10 leaves "a" held and "d" not, a
\* steering above 10 leaves "d" held and "a" not.
C21_SteeringKeys ==
    (controller_type = KEYBOARD /\ CleanApply) =>
        /\ Abs(current_steering) < 10 => ("a" \notin keys_pressed /\ "d" \notin keys_pressed)
        /\ current_steering < -10 => ("a" \in keys_pressed /\ "d" \notin keys_pressed)
        /\ current_steering > 10 => ("d" \in keys_pressed /\ "a" \notin keys_pressed)

\* the steering went from the left of the dead zone to its right: "a" was
\* released and "d" pressed
C21_Witness ==
    /\ controller_type = KEYBOARD /\ CleanApply /\ IsUpdate(ev)
    /\ current_steering = 50
    /\ keys_pressed = {"d"}
    /\ Ops(ApplyCalls) = <<"keyUp", "keyDown">>
    /\ Args(ApplyCalls) = <<"a", "d">>

\* C22: with the keyboard back end, after an update_controller in which no
\* device call raised, "w" is held exactly when the accelerator is above 0.1,
\* "s" exactly when the brake is above 0.1 (at exactly 0.1 the key is
\* released), "space" exactly when the handbrake is engaged and "h" exactly
\* when the horn is engaged.
C22_PedalAndFlagKeys ==
    (controller_type = KEYBOARD /\ CleanApply) =>
        /\ ("w" \in keys_pressed) <=> (current_accelerator[1] * 10 > current_accelerator[2])
        /\ ("s" \in keys_pressed) <=> (current_brake[1] * 10 > current_brake[2])
        /\ ("space" \in keys_pressed) <=> handbrake_pressed
        /\ ("h" \in keys_pressed) <=> horn_pressed

\* the brake came down to exactly 0.1 and its key was released, while the
\* accelerator, the handbrake and the horn stay held
C22_Witness ==
    /\ controller_type = KEYBOARD /\ CleanApply /\ IsUpdate(ev)
    /\ SameRat(current_brake, 1, 10)
    /\ Ops(ApplyCalls) = <<"keyUp">> /\ Args(ApplyCalls) = <<"s">>
    /\ keys_pressed = {"w", "space", "h"}

\* floor(x * 32767) + 1 for a fraction x = num / den in [0, 1]
AxisValue(num, den) == (num * 32767) \div den + 1

\* what the claim has update_vjoy_controller write for the control state:
\* the steering is clamped to one full range either way, so (n + 1) / 2 is
\* (steering + max) / (2 * max)
VJoyWrites ==
    LET s == Min(Max(current_steering, -max_steering_angle), max_steering_angle) IN
    << [op |-> "set_axis_X", arg |-> AxisValue(s + max_steering_angle, 2 * max_steering_angle)],
       [op |-> "set_axis_Y",
        arg |-> 32768 - AxisValue(current_accelerator[1], current_accelerator[2])],
       [op |-> "set_axis_Z", arg |-> AxisValue(current_brake[1], current_brake[2])],
       [op |-> "set_button_1", arg |-> handbrake_pressed],
       [op |-> "set_button_2", arg |-> horn_pressed] >>

\* C23: with the VJoy back end, update_controller writes axis X with
\* floor(((n + 1) / 2) * 32767) + 1 for n the steering over the maximum
\* angle clamped to [-1, 1], axis Z with floor(brake * 32767) + 1, axis Y
\* with the accelerator's value of the same conversion taken from 32768,
\* the handbrake to button 1 and the horn to button 2; a call that raises
\* ends the writes, so the calls made are the first of these five, and all
\* five when none raised.
C23_VJoyMapping ==
    (controller_type = VJOY /\ Applied) =>
        /\ Len(ApplyCalls) <= 5
        /\ \A i \in 1..Len(ApplyCalls) :
              /\ ApplyCalls[i].op = VJoyWrites[i].op
              /\ ApplyCalls[i].arg = VJoyWrites[i].arg
        /\ ~ApplyFailed => Len(ApplyCalls) = 5

\* half a turn to the right with the accelerator at 0.8, the brake at 0 and
\* the handbrake engaged: X = 24576, Y = 32768 - 26214, Z = 1
C23_Witness ==
    /\ controller_type = VJOY /\ CleanApply
    /\ current_steering = 450 /\ SameRat(current_accelerator, 4, 5)
    /\ current_brake = Zero /\ handbrake_pressed /\ ~horn_pressed
    /\ Ops(ApplyCalls) = <<"set_axis_X", "set_axis_Y", "set_axis_Z", "set_button_1", "set_button_2">>
    /\ ApplyCalls[1].arg = 24576 /\ ApplyCalls[2].arg = 6554 /\ ApplyCalls[3].arg = 1
    /\ ApplyCalls[4].arg /\ ~ApplyCalls[5].arg

AxisOps == {"set_axis_X", "set_axis_Y", "set_axis_Z"}

\* C28: with the VJoy back end, every value update_controller writes to an
\* axis lies in 1..32768; 0 is never written.
C28_AxisRange ==
    (controller_type = VJOY /\ Applied) =>
        \A i \in 1..Len(ApplyCalls) :
            ApplyCalls[i].op \in AxisOps => ApplyCalls[i].arg \in 1..32768

\* C26: with the keyboard back end, in every reachable state, after failed
\* key-down and key-up calls too, "a" and "d" are not both held.
C26_LeftRightExclusive ==
    controller_type = KEYBOARD => ~({"a", "d"} \subseteq keys_pressed)

\* the keys a server that held none holds after update_controller has run
\* for the control state
KeysOf(st) ==
    {k \in {"a"} : st.steering < -10} \cup {k \in {"d"} : st.steering > 10}
    \cup {k \in {"w"} : st.accelerator[1] * 10 > st.accelerator[2]}
    \cup {k \in {"s"} : st.brake[1] * 10 > st.brake[2]}
    \cup {k \in {"space"} : st.handbrake} \cup {k \in {"h"} : st.horn}

\* C27: with the keyboard back end, after an update_controller in which no
\* device call raised, the held keys are a function of the control state,
\* at a steering of exactly 10 and exactly -10 too: they are the keys held
\* by the run that reaches the same control state with the direction keys
\* never pressed.
C27_KeysFromState ==
    (controller_type = KEYBOARD /\ CleanApply) => keys_pressed = KeysOf(ControlState)

\* the back ends in the order of preference, and which of them can be used
Priority == <<VGAMEPAD_XBOX, VJOY, KEYBOARD>>
Usable(p) == <<p.vgAvail /\ p.vgOk, p.vjAvail /\ p.vjOk, p.kbAvail>>
FirstUsable(p) ==
    IF \E i \in 1..3 : Usable(p)[i]
    THEN Priority[CHOOSE i \in 1..3 : Usable(p)[i] /\ \A j \in 1..(i - 1) : ~Usable(p)[j]]
    ELSE NONE

\* C24: after construction controller_type is the first of vgamepad, VJoy,
\* keyboard whose library is available and whose device initialises without
\* an error, NONE when there is none; and no step of the server (connect,
\* message, disconnect, reset, failing device call, shutdown) changes it.
C24_SelectedOnce ==
    /\ [](ev.kind = "init" => controller_type = FirstUsable(ev.probe))
    /\ [][controller_type' = controller_type]_vars

\* vgamepad is imported but its device fails to initialise, VJoy is usable
\* and so is the keyboard: VJoy is selected
C24_Witness ==
    /\ ev.kind = "init"
    /\ ev.probe = Probe(TRUE, FALSE, TRUE, TRUE, TRUE)
    /\ controller_type = VJOY

\* the control state and the registry a server without a back end has after
\* the event e, started from the current control state and registry
NoneState(e) ==
    IF e.kind = "message"
    THEN handle_message(Machine(ControlState, {}), {}, NONE, e.msg).st
    ELSE IF e.kind = "disconnect"
    THEN handle_client(Machine(ControlState, {}), {}, NONE,
                       connected_clients \ {e.client}, e.msg).st
    ELSE ControlState
NoneRegistry(e) ==
    IF e.kind = "connect" THEN connected_clients \cup {e.client}
    ELSE IF e.kind = "disconnect" THEN connected_clients \ {e.client}
    ELSE connected_clients

\* C25: with controller_type NONE no device call is ever made and no key is
\* ever down; and whatever the back end and whichever device calls raise,
\* every connect, message and disconnect takes the control state and the
\* registry to what the server without a back end reaches from the same
\* control state and registry on the same event, so that all four back ends
\* go through the same control states and registries.
C25_NoneEquivalent ==
    /\ [](controller_type = NONE => (calls = <<>> /\ keys_down = {} /\ failures = 0))
    /\ [][/\ ControlState' = NoneState(ev')
          /\ connected_clients' = NoneRegistry(ev')]_vars

\* without a back end an update has entered update_controller and changed
\* the control state, with no device call
C25_Witness ==
    /\ controller_type = NONE
    /\ IsUpdate(ev) /\ Applied
    /\ current_steering = 450 /\ SameRat(current_accelerator, 4, 5)
    /\ calls = <<>>

====
